---- MODULE Spec2Model ----
(***************************************************************************)
(* A model of GenSVM / MSVMMaj: label prediction and hit-rate              *)
(* (gensvm_pred.c), kernel preprocessing (msvmmaj_kernel.c), model         *)
(* allocation (msvmmaj_init.c), data reading (util.c) and the task         *)
(* life cycle (gensvm_task.c).                                             *)
(*                                                                         *)
(* Doubles are modelled by exact values.  A coordinate of the simplex      *)
(* space is a record [hi, lo] standing for hi*BIG + lo, where BIG is the   *)
(* number 1000000000 that gensvm_predict_labels_linear starts min_dist at; *)
(* BIG is never multiplied out, numbers are compared as polynomials in     *)
(* BIG whose coefficients stay far below BIG.  Column k of the simplex     *)
(* space is measured in units of 1/sqrt(2(k+1)(k+2)), which makes every    *)
(* coordinate of the simplex matrix U an integer.                          *)
(***************************************************************************)
EXTENDS Integers, Sequences, FiniteSets, TLC

\* ------------------------------------------------------------ bounds
\* Largest number of classes K of a model (K ranges over 2..MaxK).
MaxK == 3
\* Largest number of instances of a data set handed to the predictor.
MaxN == 2
\* Largest number of features (columns of Z besides the bias column); the
\* predictor is run with exactly MaxM features.
MaxM == 1
\* Largest number of tasks created by gensvm_init_task and gensvm_copy_task.
MaxTasks == 3

\* ------------------------------------------------------------ state
VARIABLES
    \* prediction (gensvm_pred.c)
    model_K,      \* model->K of the fitted model
    model_V,      \* model->V, (m+1) x (K-1)
    data_n,       \* data->n of the data set to predict
    data_Z,       \* data->Z, n x (m+1), first column ones
    K2,           \* the cross kernel of the kernel routine, n_test x n_train
    tail,         \* what lies behind the K-1 doubles of S when it is read
    accessed,     \* per buffer of the kernel routine: its length, the indices used
    routine,      \* the prediction routine that has run, "none" before
    predy,        \* the labels written by it
    \* hit-rate (gensvm_pred.c)
    perf_n,       \* data->n handed to gensvm_prediction_perf
    perf_y,       \* data->y handed to gensvm_prediction_perf
    perf_predy,   \* predy handed to gensvm_prediction_perf
    performance,  \* its return value, unset before the call
    \* the heap shared by the parts below
    heap,           \* the sequence of blocks [val, frees] allocated so far
    \* MSVMMaj model and data (msvmmaj_kernel.c, msvmmaj_init.c, util.c)
    model,          \* struct MajModel
    data,           \* struct MajData
    kernel_K,       \* the local K of msvmmaj_make_kernel: [gram, final]
    dpotrf_status,  \* the status dpotrf returned in the last call
    exit_status,    \* the status the process exited with
    pre,            \* model, data and heap when the last call started
    last,           \* the routine that ran last
    \* tasks (gensvm_task.c)
    tasks,          \* the pointers gensvm_init_task has returned, in order
    configured,     \* the tasks whose fields the grid set up, and their copies
    touched,        \* the tasks whose own kernelparam was written or freed
    copy_log,       \* one record per gensvm_copy_task call
    free_log,       \* the task freed and the heap before, after gensvm_free_task
    \* the arrays of the model and a data set read from a file
    buffers,        \* model->W, t, V, Vbar, U, UU, Q, H, R, rho
    file,           \* the data file handed to msvmmaj_read_data
    dataset,        \* the MajData that msvmmaj_read_data fills
    \* the owner of a model and its data
    model_log,      \* one record per gensvm_task_to_model call
    struct_frees,   \* how often free() was called on the model and the data
    \* model files (util.c)
    loaded,         \* the model msvmmaj_read_model has filled
    \* the optimizer (gensvm_update.h)
    solver          \* the state of the iteration controller

predVars == <<model_K, model_V, data_n, data_Z, K2, tail, accessed, routine, predy>>
perfVars == <<perf_n, perf_y, perf_predy, performance>>
majVars == <<model, data, kernel_K, dpotrf_status, exit_status, pre, last>>
taskVars == <<tasks, configured, touched, copy_log, free_log>>
ioVars == <<buffers, file, dataset>>
ownVars == <<model_log, struct_frees>>
extVars == <<loaded, solver>>
vars == <<predVars, perfVars, heap, majVars, taskVars, ioVars, ownVars, extVars>>

\* What the routines of each part leave alone.
PredFrame == UNCHANGED <<perfVars, heap, majVars, taskVars, ioVars, ownVars, extVars>>
PerfFrame == UNCHANGED <<predVars, heap, majVars, taskVars, ioVars, ownVars, extVars>>
MajFrame == UNCHANGED <<predVars, perfVars, taskVars, ioVars, ownVars, extVars>>
TaskFrame == UNCHANGED <<predVars, perfVars, majVars, ioVars, ownVars, extVars>>
IoFrame == UNCHANGED <<predVars, perfVars, taskVars, ownVars, extVars>>
OwnFrame == UNCHANGED <<predVars, perfVars, extVars>>

\* ------------------------------------------------------------ numbers
\* The initial min_dist of gensvm_predict_labels_linear, 1000000000.0.
BIG == 1000000000
\* The initial min_dist of gensvm_predict_labels_kernel, 1e10, in units of BIG.
KERNEL_MIN_DIST_BIGS == 10

Num(h, l) == [hi |-> h, lo |-> l]
NumZero == Num(0, 0)
NumAdd(x, y) == Num(x.hi + y.hi, x.lo + y.lo)
NumScale(c, x) == Num(c * x.hi, c * x.lo)

RECURSIVE Fact(_)
Fact(k) == IF k <= 1 THEN 1 ELSE k * Fact(k - 1)

\* Squared lengths are kept multiplied by Den(K) = 2*K!, so that the weight
\* 1/(2(k+1)(k+2)) of column k becomes the integer ColWeight(K, k).
Den(K) == 2 * Fact(K)
ColWeight(K, k) == Fact(K) \div ((k + 1) * (k + 2))

\* A flat C array of len elements is a function on 0..len-1.
\* Row-major addressing of a matrix stored in a flat array.
matrix_get(M, cols, i, j) == M[i * cols + j]

RECURSIVE SumTo(_, _)
\* f[0] + ... + f[k-1]
SumTo(f, k) == IF k = 0 THEN 0 ELSE f[k - 1] + SumTo(f, k - 1)

\* ------------------------------------------------------------ simplex
\* The K x (K-1) simplex matrix U in the column units above: row i, column j
\* is -1 for i <= j, j+1 for i = j+1 and 0 below.
gensvm_simplex_gen(K) ==
    [idx \in 0..(K * (K - 1) - 1) |->
        LET i == idx \div (K - 1)
            j == idx % (K - 1)
        IN  IF i <= j THEN -1 ELSE IF i = j + 1 THEN j + 1 ELSE 0]

\* ------------------------------------------------------------ BLAS
RECURSIVE DotRowCol(_, _, _, _, _, _)
\* sum over l < len of A[i][l] * B[l][k], A integer, B of Num
DotRowCol(A, lda, B, ldb, ik, len) ==
    IF len = 0 THEN NumZero
    ELSE NumAdd(DotRowCol(A, lda, B, ldb, ik, len - 1),
                NumScale(matrix_get(A, lda, ik[1], len - 1),
                         matrix_get(B, ldb, len - 1, ik[2])))

\* C := A * B, A an n x inner matrix of integers, B an inner x cols matrix
\* of Num, both row-major; the result is written with leading dimension cols.
cblas_dgemm(n, cols, inner, A, lda, B, ldb) ==
    [idx \in 0..(n * cols - 1) |->
        DotRowCol(A, lda, B, ldb, <<idx \div cols, idx % cols>>, inner)]

\* A length is NaN, Inf or finite; the square of a finite one, times Den(K),
\* is a*BIG^2 + b*BIG + c.
Len2(a0, b0, c0) == [kind |-> "fin", a |-> a0, b |-> b0, c |-> c0]
NaN == [kind |-> "nan", a |-> 0, b |-> 0, c |-> 0]
Inf == [kind |-> "inf", a |-> 0, b |-> 0, c |-> 0]

\* The Euclidean norm of the first len entries of S (entries of Num).
cblas_dnrm2(K, len, S) ==
    Len2(SumTo([k \in 0..(len - 1) |-> ColWeight(K, k) * S[k].hi * S[k].hi], len),
         SumTo([k \in 0..(len - 1) |-> 2 * ColWeight(K, k) * S[k].hi * S[k].lo], len),
         SumTo([k \in 0..(len - 1) |-> ColWeight(K, k) * S[k].lo * S[k].lo], len))

\* The double c * BIG as a length.
BigLen(K, c) == Len2(Den(K) * c * c, 0, 0)

\* x < y on doubles: false when either is NaN.
Less(x, y) ==
    IF x.kind = "nan" \/ y.kind = "nan" THEN FALSE
    ELSE IF x.kind = "inf" THEN FALSE
    ELSE IF y.kind = "inf" THEN TRUE
    ELSE \/ x.a < y.a
         \/ x.a = y.a /\ x.b < y.b
         \/ x.a = y.a /\ x.b = y.b /\ x.c < y.c

\* ------------------------------------------------------------ prediction

\* S for instance i and vertex j: row i of ZV minus row j of U.
DiffVector(ZV, U, K, i, j) ==
    [k \in 0..(K - 2) |->
        Num(matrix_get(ZV, K - 1, i, k).hi,
            matrix_get(ZV, K - 1, i, k).lo - matrix_get(U, K - 1, j, k))]

RECURSIVE ScanVertices(_, _, _, _, _)
\* The loop over j = from..K-1 of the three routines: norm[j] is the norm
\* computed for vertex j; label and min_dist are the running values.
ScanVertices(norm, K, from, label, min_dist) ==
    IF from >= K THEN label
    ELSE IF Less(norm[from], min_dist)
         THEN ScanVertices(norm, K, from + 1, from + 1, norm[from])
         ELSE ScanVertices(norm, K, from + 1, label, min_dist)

\* label = 0; min_dist = start; the scan; predy[i] = label, for every i.
\* norm[i][j] is the norm computed for instance i and vertex j.
LabelLoop(n, K, norm, start) ==
    [i \in 0..(n - 1) |-> ScanVertices(norm[i], K, 0, 0, start)]

gensvm_predict_labels_linear(n, m, K, Z, V) ==
    LET U  == gensvm_simplex_gen(K)
        ZV == cblas_dgemm(n, K - 1, m + 1, Z, m + 1, V, K - 1)
    IN  LabelLoop(n, K,
                  [i \in 0..(n - 1) |-> [j \in 0..(K - 1) |->
                      cblas_dnrm2(K, K - 1, DiffVector(ZV, U, K, i, j))]],
                  BigLen(K, 1))

gensvm_predict_labels(n, m, K, Z, V) ==
    LET U  == gensvm_simplex_gen(K)
        ZV == cblas_dgemm(n, K - 1, m + 1, Z, m + 1, V, K - 1)
    IN  LabelLoop(n, K,
                  [i \in 0..(n - 1) |-> [j \in 0..(K - 1) |->
                      cblas_dnrm2(K, K - 1, DiffVector(ZV, U, K, i, j))]],
                  Inf)

\* cblas_dnrm2(K, S, 1) on the K-1 doubles of S: the K-th double read is
\* whatever follows S in memory: t.nan, or the number t.val in units of 1.
TailNorm(K, S, tl) ==
    IF tl.nan THEN NaN
    ELSE LET inside == cblas_dnrm2(K, K - 1, S)
             t == tl.val
         IN  Len2(inside.a + Den(K) * t.hi * t.hi,
                  inside.b + 2 * Den(K) * t.hi * t.lo,
                  inside.c + Den(K) * t.lo * t.lo)

\* KPS of the kernel routine: column 0 is 1, column j >= 1 is
\* J[j] * sum_k K2[i][k] * Ztrain[k][j].
KernelKPS(n_test, n_train, r, crossK, Ztrain, J) ==
    [idx \in 0..(n_test * (r + 1) - 1) |->
        LET i == idx \div (r + 1)
            j == idx % (r + 1)
        IN  IF j = 0 THEN 1
            ELSE J[j] * SumTo([k \in 0..(n_train - 1) |->
                                  matrix_get(crossK, n_train, i, k)
                                  * matrix_get(Ztrain, r + 1, k, j)],
                              n_train)]

gensvm_predict_labels_kernel(n_test, n_train, r, K, crossK, Ztrain, J, V, t) ==
    LET U   == gensvm_simplex_gen(K)
        KPS == KernelKPS(n_test, n_train, r, crossK, Ztrain, J)
        ZV  == cblas_dgemm(n_test, K - 1, r + 1, KPS, r + 1, V, K - 1)
    IN  LabelLoop(n_test, K,
                  [i \in 0..(n_test - 1) |-> [j \in 0..(K - 1) |->
                      TailNorm(K, DiffVector(ZV, U, K, i, j), t)]],
                  BigLen(K, KERNEL_MIN_DIST_BIGS))

\* The elements of a row-major matrix with the given row length that loops
\* over rows and cols touch.
Cells(rows, cols, row_length) == {i * row_length + j : i \in rows, j \in cols}

\* The doubles cblas_dnrm2(N, X, 1) reads.
DnrmReads(N) == 0..(N - 1)

\* The buffers of gensvm_predict_labels_kernel: the number of doubles each
\* was allocated with, and the indices the routine reads or writes.
KernelAccess(n_test, n_train, r, K) ==
    [S   |-> [len |-> K - 1,
              idx |-> 0..(K - 2) \cup DnrmReads(K)],
     ZV  |-> [len |-> n_test * (r + 1),
              idx |-> Cells(0..(n_test - 1), 0..(K - 2), K - 1)],
     KPS |-> [len |-> n_test * (r + 1),
              idx |-> Cells(0..(n_test - 1), 0..r, r + 1)],
     U   |-> [len |-> K * (K - 1),
              idx |-> Cells(0..(K - 1), 0..(K - 2), K - 1)],
     J   |-> [len |-> r + 1,
              idx |-> Cells(1..r, {0}, 1)]]

\* A double that is a ratio of integers, or NaN (0/0).
RatioNaN == [nan |-> TRUE, num |-> 0, den |-> 1]
Ratio(p, q) == IF q = 0 THEN RatioNaN ELSE [nan |-> FALSE, num |-> p, den |-> q]
RatioTimes(x, c) == IF x.nan THEN RatioNaN ELSE [x EXCEPT !.num = x.num * c]
\* x = p/q
RatioEq(x, p, q) == ~x.nan /\ x.num * q = p * x.den

RECURSIVE CountCorrect(_, _, _)
\* The loop of gensvm_prediction_perf over i = 0..upto-1.
CountCorrect(y, labels, upto) ==
    IF upto = 0 THEN 0
    ELSE CountCorrect(y, labels, upto - 1)
         + (IF y[upto - 1] = labels[upto - 1] THEN 1 ELSE 0)

\* A hit count that never looks at instance 0.
PerfSkipsFirst(n, y, labels) ==
    RatioTimes(Ratio(CountCorrect(y, labels, n)
                     - (IF n > 0 /\ y[0] = labels[0] THEN 1 ELSE 0), n), 100)

gensvm_prediction_perf(n, y, labels) ==
    RatioTimes(Ratio(CountCorrect(y, labels, n), n), 100)

\* ---- the inputs of prediction
\* The rows V is built from: the zero row, the K vertices themselves, and a
\* row whose first coordinate is 4*BIG units (2e9), far from every vertex.
VRowSet(K) ==
    {[k \in 0..(K - 2) |-> NumZero]}
    \cup {[k \in 0..(K - 2) |-> Num(0, matrix_get(gensvm_simplex_gen(K), K - 1, j, k))] :
              j \in 0..(K - 1)}
    \cup {[k \in 0..(K - 2) |-> IF k = 0 THEN Num(4, 0) ELSE NumZero]}

VSet(K, m) ==
    {[idx \in 0..((m + 1) * (K - 1) - 1) |-> rows[idx \div (K - 1)][idx % (K - 1)]] :
         rows \in [0..m -> VRowSet(K)]}

\* Augmented data: column 0 is the bias column of ones, features are 0 or 1.
ZSet(n, m) ==
    {[idx \in 0..(n * (m + 1) - 1) |->
         IF idx % (m + 1) = 0 THEN 1
         ELSE x[idx \div (m + 1)][(idx % (m + 1)) - 1]] :
         x \in [0..(n - 1) -> [0..(m - 1) -> {0, 1}]]}

\* Cross kernels of the test set against the training set.
K2Set(n_test, n_train) ==
    {[idx \in 0..(n_test * n_train - 1) |-> 1],
     [idx \in 0..(n_test * n_train - 1) |->
         IF idx \div n_train = idx % n_train THEN 1 ELSE 0]}

\* What may follow S in memory: zero, 10*BIG, or a NaN bit pattern.
TailSet ==
    {[nan |-> FALSE, val |-> NumZero],
     [nan |-> FALSE, val |-> Num(KERNEL_MIN_DIST_BIGS, 0)],
     [nan |-> TRUE, val |-> NumZero]}

\* data->J: zero for the bias column, one for the others.
RegJ(r) == [j \in 0..r |-> IF j = 0 THEN 0 ELSE 1]

\* An unset value is the empty sequence, a set one <<value>>.
None == <<>>
Some(x) == <<x>>
Empty == <<>>

PerfIdle ==
    /\ perf_n = 0
    /\ perf_y = Empty
    /\ perf_predy = Empty
    /\ performance = None

PredIdle ==
    /\ model_K = 2
    /\ model_V = Empty
    /\ data_n = 0
    /\ data_Z = Empty
    /\ K2 = None
    /\ tail = None
    /\ accessed = Empty
    /\ routine = "none"
    /\ predy = Empty

PredInit ==
    /\ model_K \in 2..MaxK
    /\ data_n \in 1..MaxN
    /\ model_V \in VSet(model_K, MaxM)
    /\ data_Z \in ZSet(data_n, MaxM)
    /\ K2 = None
    /\ tail = None
    /\ accessed = Empty
    /\ routine = "none"
    /\ predy = Empty

PredictLinear ==
    /\ routine = "none"
    /\ routine' = "linear"
    /\ predy' = gensvm_predict_labels_linear(data_n, MaxM, model_K, data_Z, model_V)
    /\ UNCHANGED <<model_K, model_V, data_n, data_Z, K2, tail, accessed>>
    /\ PredFrame

PredictLabels ==
    /\ routine = "none"
    /\ routine' = "labels"
    /\ predy' = gensvm_predict_labels(data_n, MaxM, model_K, data_Z, model_V)
    /\ UNCHANGED <<model_K, model_V, data_n, data_Z, K2, tail, accessed>>
    /\ PredFrame

\* The training data is the data set itself (prediction of the training set).
PredictKernel ==
    /\ routine = "none"
    /\ \E ck \in K2Set(data_n, data_n), t \in TailSet :
          /\ K2' = Some(ck)
          /\ tail' = Some(t)
          /\ predy' = gensvm_predict_labels_kernel(data_n, data_n, MaxM, model_K,
                          ck, data_Z, RegJ(MaxM), model_V, t)
    /\ accessed' = KernelAccess(data_n, data_n, MaxM, model_K)
    /\ routine' = "kernel"
    /\ UNCHANGED <<model_K, model_V, data_n, data_Z>>
    /\ PredFrame

PerfInit ==
    /\ perf_n \in 0..MaxN
    /\ \E K \in 2..MaxK :
          /\ perf_y \in [0..(perf_n - 1) -> 1..K]
          /\ perf_predy \in [0..(perf_n - 1) -> 0..K]
    /\ performance = None

PredictionPerf ==
    /\ performance = None
    /\ performance' = Some(gensvm_prediction_perf(perf_n, perf_y, perf_predy))
    /\ UNCHANGED <<perf_n, perf_y, perf_predy>>
    /\ PerfFrame

\* ------------------------------------------------------------ the heap
\* Blocks are never reused: malloc appends a block, free counts the frees of
\* it.  A pointer is the index of its block, NULL is 0.
NULL == 0

Block(v) == [val |-> v, frees |-> 0]
HeapAlloc(h, v) == Append(h, Block(v))
NewPtr(h) == Len(h) + 1
HeapFree(h, p) == IF p = NULL THEN h ELSE [h EXCEPT ![p].frees = @ + 1]

\* ------------------------------------------------------------ kernels
K_LINEAR == "K_LINEAR"
K_POLY == "K_POLY"
K_RBF == "K_RBF"
K_SIGMOID == "K_SIGMOID"
\* A value of the KernelType field that is none of the four kinds.
K_OTHER == "K_OTHER"
KernelTypes == {K_LINEAR, K_POLY, K_RBF, K_SIGMOID, K_OTHER}

\* Entries of Z and of the kernel matrix: the integer arg, exp(arg) or
\* tanh(arg); "chol" marks entry arg of a Cholesky factor.  exp(0) and
\* tanh(0) are the integers 1 and 0, so equal records are equal doubles.
Lit(v) == [fn |-> "lit", arg |-> v]
Exp(v) == IF v = 0 THEN Lit(1) ELSE [fn |-> "exp", arg |-> v]
Tanh(v) == IF v = 0 THEN Lit(0) ELSE [fn |-> "tanh", arg |-> v]

RECURSIVE Pow(_, _)
Pow(b, e) == IF e <= 0 THEN 1 ELSE b * Pow(b, e - 1)

\* x1 and x2 are the offsets in Z of two feature rows of length len.
msvmmaj_compute_rbf(Z, x1, x2, kernelparam, len) ==
    Exp((-kernelparam[0])
        * SumTo([i \in 0..(len - 1) |->
                    (Z[x1 + i].arg - Z[x2 + i].arg) * (Z[x1 + i].arg - Z[x2 + i].arg)],
                len))

msvmmaj_compute_poly(Z, x1, x2, kernelparam, len) ==
    Lit(Pow(SumTo([i \in 0..(len - 1) |-> Z[x1 + i].arg * Z[x2 + i].arg], len)
                * kernelparam[0] + kernelparam[1],
            kernelparam[2]))

msvmmaj_compute_sigmoid(Z, x1, x2, kernelparam, len) ==
    Tanh(SumTo([i \in 0..(len - 1) |-> Z[x1 + i].arg * Z[x2 + i].arg], len)
             * kernelparam[0] + kernelparam[1])

\* A test for the wrong kind.
KernelIsLinearTypo(kerneltype) == kerneltype = K_RBF

\* The test of line 33: msvmmaj_make_kernel returns at once.
KernelIsLinear(kerneltype) == kerneltype = K_LINEAR

\* value of lines 46-54 for rows i <= j
KernelEntry(kerneltype, kernelparam, Z, m, i, j) ==
    LET x1 == i * (m + 1) + 1
        x2 == j * (m + 1) + 1
    IN  IF kerneltype = K_POLY
        THEN msvmmaj_compute_poly(Z, x1, x2, kernelparam, m)
        ELSE IF kerneltype = K_RBF
        THEN msvmmaj_compute_rbf(Z, x1, x2, kernelparam, m)
        ELSE msvmmaj_compute_rbf(Z, x1, x2, kernelparam, m)

\* K after the loop of lines 42-63: entry (i, j) and (j, i) are set in the
\* pass for the smaller and the larger of the two.
GramLoop(kerneltype, kernelparam, Z, m, n) ==
    [idx \in 0..(n * n - 1) |->
        LET r == idx \div n
            c == idx % n
        IN  KernelEntry(kerneltype, kernelparam, Z, m,
                        IF r <= c THEN r ELSE c, IF r <= c THEN c ELSE r)]


\* dpotrf('L', n, K, n) when it succeeds: the triangle it works on (row <=
\* column in the row-major view) holds the factor, the rest is left as it was.
Dpotrf(K, n) ==
    [idx \in 0..(n * n - 1) |->
        IF idx \div n <= idx % n THEN [fn |-> "chol", arg |-> idx] ELSE K[idx]]

\* Z as written by lines 79-84: column 0 is 1.0, column j+1 is column j of K.
KernelZShifted(K, n) ==
    [idx \in 0..(n * (n + 1) - 1) |->
        LET i == idx \div (n + 1)
            j == idx % (n + 1)
        IN  IF j = n THEN Lit(1) ELSE matrix_get(K, n, i, j)]

KernelZ(K, n) ==
    [idx \in 0..(n * (n + 1) - 1) |->
        LET i == idx \div (n + 1)
            j == idx % (n + 1)
        IN  IF j = 0 THEN Lit(1) ELSE matrix_get(K, n, i, j - 1)]

\* The number of doubles the switch of lines 90-107 allocates and copies.
ParamCount(kerneltype) ==
    IF kerneltype = K_POLY THEN 3
    ELSE IF kerneltype = K_RBF THEN 1
    ELSE IF kerneltype = K_SIGMOID THEN 2
    ELSE 0

\* The heap after lines 89-107 and the pointer left in data->kernelparam:
\* the old array is freed, and a kind with parameters gets a new array
\* holding the model's; for any other kind the freed pointer stays.
DataKernelparamKept(h, kerneltype, modelparam, dataparam) ==
    [heap |-> HeapFree(h, dataparam), ptr |-> dataparam]

DataKernelparam(h, kerneltype, modelparam, dataparam) ==
    LET freed == HeapFree(h, dataparam)
        cnt == ParamCount(kerneltype)
    IN  IF cnt = 0 THEN [heap |-> freed, ptr |-> dataparam]
        ELSE [heap |-> HeapAlloc(freed, [i \in 0..(cnt - 1) |-> h[modelparam].val[i]]),
              ptr |-> NewPtr(freed)]

\* The statuses dpotrf may return: 0, or the order of a minor that is not
\* positive definite.
DpotrfStatuses == {0, 1}

\* msvmmaj_make_kernel(model, data)
MakeKernel ==
    /\ exit_status = None
    /\ last = "none"
    /\ pre' = Some([model |-> model, data |-> data, heap |-> heap])
    /\ last' = "make_kernel"
    /\ IF KernelIsLinear(model.kerneltype)
       THEN UNCHANGED <<heap, model, data, kernel_K, dpotrf_status, exit_status>>
       ELSE LET n == model.n
                kp == IF model.kernelparam = NULL THEN Empty
                      ELSE heap[model.kernelparam].val
            IN  IF n >= 1 /\ model.kerneltype \notin {K_POLY, K_RBF, K_SIGMOID}
                THEN \* line 58, in the first pass of the loop
                     /\ exit_status' = Some(1)
                     /\ UNCHANGED <<heap, model, data, kernel_K, dpotrf_status>>
                ELSE \E status \in DpotrfStatuses :
                     LET gram == GramLoop(model.kerneltype, kp, data.Z, data.m, n)
                         final == IF model.use_cholesky THEN Dpotrf(gram, n) ELSE gram
                         param == DataKernelparam(heap, model.kerneltype,
                                                  model.kernelparam, data.kernelparam)
                     IN  IF model.use_cholesky /\ status # 0
                         THEN \* line 72
                              /\ dpotrf_status' = Some(status)
                              /\ kernel_K' = Some([gram |-> gram, final |-> gram])
                              /\ exit_status' = Some(0)
                              /\ UNCHANGED <<heap, model, data>>
                         ELSE /\ dpotrf_status' = IF model.use_cholesky
                                                  THEN Some(status) ELSE None
                              /\ kernel_K' = Some([gram |-> gram, final |-> final])
                              /\ data' = [data EXCEPT
                                             !.Z = KernelZ(final, n),
                                             !.m = n,
                                             !.kerneltype = model.kerneltype,
                                             !.kernelparam = param.ptr,
                                             !.use_cholesky = model.use_cholesky]
                              /\ heap' = param.heap
                              /\ model' = [model EXCEPT !.m = n]
                              /\ UNCHANGED exit_status
    /\ MajFrame

\* ---- the inputs of msvmmaj_make_kernel
ArrayOf(seq) == [i \in 0..(Len(seq) - 1) |-> seq[i + 1]]

\* Kernel parameters a model of each kind is configured with.
ParamSet(kerneltype) ==
    IF kerneltype = K_RBF THEN {ArrayOf(<<1>>), ArrayOf(<<2>>)}
    ELSE IF kerneltype = K_POLY THEN {ArrayOf(<<1, 0, 2>>), ArrayOf(<<2, 1, 1>>)}
    ELSE IF kerneltype = K_SIGMOID THEN {ArrayOf(<<1, 0>>), ArrayOf(<<1, 1>>)}
    ELSE {Empty}

\* Augmented raw data: the features are the integers 0 or 1.
RawZSet(n, m) ==
    {[idx \in 0..(n * (m + 1) - 1) |-> Lit(z[idx])] : z \in ZSet(n, m)}

\* A model configured for a kernel and a data set read for it, with
\* model->n, m, K taken from the data; the data may carry the descriptor
\* of an earlier RBF preprocessing.
KernelInit ==
    /\ \E n \in 0..MaxN, m \in 1..MaxM, kt \in KernelTypes, chol \in BOOLEAN,
          dchol \in BOOLEAN, old \in BOOLEAN :
       \E Z \in RawZSet(n, m), kp \in ParamSet(kt) :
          LET h1 == IF kp = Empty THEN <<>> ELSE <<Block(kp)>>
              h2 == IF old THEN HeapAlloc(h1, ArrayOf(<<3>>)) ELSE h1
          IN  /\ heap = h2
              /\ model = [n |-> n, m |-> m, K |-> 2, kerneltype |-> kt,
                          kernelparam |-> IF kp = Empty THEN NULL ELSE 1,
                          use_cholesky |-> chol]
              /\ data = [n |-> n, m |-> m, K |-> 2, Z |-> Z,
                         y |-> [i \in 0..(n - 1) |-> 1 + (i % 2)],
                         kerneltype |-> IF old THEN K_RBF ELSE K_LINEAR,
                         kernelparam |-> IF old THEN Len(h2) ELSE NULL,
                         use_cholesky |-> dchol]
    /\ kernel_K = None
    /\ dpotrf_status = None
    /\ exit_status = None
    /\ pre = None
    /\ last = "none"

IoIdle ==
    /\ buffers = Empty
    /\ file = None
    /\ dataset = Empty

\* Neither the model nor the data has been handed to free().
OwnIdle ==
    /\ model_log = {}
    /\ struct_frees = [model |-> 0, data |-> 0]

ExtIdle == loaded = None /\ solver = Empty

MajIdle ==
    /\ model = Empty
    /\ data = Empty
    /\ kernel_K = None
    /\ dpotrf_status = None
    /\ exit_status = None
    /\ pre = None
    /\ last = "none"

\* ------------------------------------------------------------ model arrays
\* An array field of the model: st is "wild" while the field was never
\* assigned, "null" when it holds NULL, "alloc" when it holds len cells.
Wild == [st |-> "wild", len |-> 0]
Null == [st |-> "null", len |-> 0]
Alloc(len) == [st |-> "alloc", len |-> len]

\* The arrays in the order msvmmaj_allocate_model allocates them.
AllocOrder == <<"W", "t", "V", "Vbar", "U", "UU", "Q", "H", "R", "rho">>
\* The arrays msvmmaj_reallocate_model resizes when n, and when m, changes.
ReallocOrderN == <<"UU", "Q", "H", "R", "rho">>
\* A resize that leaves Vbar as it was.
ReallocOrderMNoVbar == <<"W", "V">>
ReallocOrderM == <<"W", "V", "Vbar">>

\* The number of cells each array is given for dimensions n, m, K.
ArrayLen(name, n, m, K) ==
    IF name = "W" THEN m * (K - 1)
    ELSE IF name = "t" THEN K - 1
    ELSE IF name \in {"V", "Vbar"} THEN (m + 1) * (K - 1)
    ELSE IF name = "U" THEN K * (K - 1)
    ELSE IF name = "UU" THEN n * K * (K - 1)
    ELSE IF name \in {"Q", "H", "R"} THEN n * K
    ELSE n

\* The hyperparameters msvmmaj_init_model sets.
msvmmaj_init_model ==
    [p |-> "1.0", lambda |-> "2^-8", epsilon |-> "1e-6", kappa |-> "0.0",
     weight_idx |-> 1, kerneltype |-> K_LINEAR, kernelparam |-> NULL]

\* The model's arrays after msvmmaj_init_model: no field assigned.
InitBuffers == [name \in {AllocOrder[i] : i \in 1..Len(AllocOrder)} |-> Wild]

\* The arrays after the calls of order up to the one that returns NULL;
\* fail is its position, 0 when every call succeeds.
AllocSeq(b, order, fail, n, m, K) ==
    [name \in DOMAIN b |->
        LET pos == {i \in 1..Len(order) : order[i] = name}
        IN  IF pos = {} THEN b[name]
            ELSE LET i == CHOOSE i \in pos : TRUE
                 IN  IF fail = 0 \/ i < fail THEN Alloc(ArrayLen(name, n, m, K))
                     ELSE IF i = fail THEN Null
                     ELSE b[name]]

\* exit(1) after the first Calloc or realloc that returns NULL.
AllocExit(fail) == IF fail = 0 THEN None ELSE Some(1)

\* msvmmaj_allocate_model(model)
msvmmaj_allocate_model(b, mdl, fail) ==
    [buffers |-> AllocSeq(b, AllocOrder, fail, mdl.n, mdl.m, mdl.K),
     exit |-> AllocExit(fail)]

\* The reallocs msvmmaj_reallocate_model(model, n, m) makes, in order.
ReallocOrder(mdl, n, m) ==
    IF mdl.n = n /\ mdl.m = m THEN <<>>
    ELSE (IF mdl.n # n THEN ReallocOrderN ELSE <<>>) \o
         (IF mdl.m # m THEN ReallocOrderM ELSE <<>>)

\* msvmmaj_reallocate_model(model, n, m): model->n is set once the arrays
\* that depend on n are resized, model->m once those that depend on m are.
msvmmaj_reallocate_model(b, mdl, n, m, fail) ==
    LET order == ReallocOrder(mdl, n, m)
        nlen == IF mdl.n # n THEN Len(ReallocOrderN) ELSE 0
        ndone == mdl.n # n /\ (fail = 0 \/ fail > nlen)
        mdone == order # <<>> /\ mdl.m # m /\ fail = 0
    IN  [buffers |-> AllocSeq(b, order, fail, n, m, mdl.K),
         model |-> [mdl EXCEPT !.n = IF ndone THEN n ELSE @,
                               !.m = IF mdone THEN m ELSE @],
         exit |-> AllocExit(fail)]

AllocateModel ==
    /\ exit_status = None
    /\ buffers = InitBuffers
    /\ \E fail \in 0..Len(AllocOrder) :
          LET r == msvmmaj_allocate_model(buffers, model, fail)
          IN  /\ buffers' = r.buffers
              /\ exit_status' = r.exit
    /\ UNCHANGED <<heap, model, data, kernel_K, dpotrf_status, pre, last,
                   file, dataset>>
    /\ IoFrame

\* The model is resized once, after the kernel preprocessing.
ReallocateModel ==
    /\ exit_status = None
    /\ last = "make_kernel"
    /\ \A name \in DOMAIN buffers : buffers[name].st = "alloc"
    /\ \E n \in {model.n, model.n + 1}, m \in {model.m, model.m + 1} :
       \E fail \in 0..Len(ReallocOrder(model, n, m)) :
          LET r == msvmmaj_reallocate_model(buffers, model, n, m, fail)
          IN  /\ buffers' = r.buffers
              /\ model' = r.model
              /\ exit_status' = r.exit
    /\ last' = "reallocate_model"
    /\ UNCHANGED <<heap, data, kernel_K, dpotrf_status, pre, file, dataset>>
    /\ IoFrame

\* msvmmaj_reallocate_model(model, n, m) for any n and m, any number of
\* times, on an allocated model; pre keeps the call.
ResizeModel ==
    /\ exit_status = None
    /\ \A name \in DOMAIN buffers : buffers[name].st = "alloc"
    /\ \E n \in 0..MaxN, m \in 1..(MaxM + 1) :
       \E fail \in 0..Len(ReallocOrder(model, n, m)) :
          LET r == msvmmaj_reallocate_model(buffers, model, n, m, fail)
          IN  /\ buffers' = r.buffers
              /\ model' = r.model
              /\ exit_status' = r.exit
              /\ pre' = Some([n |-> n, m |-> m, model |-> model, buffers |-> buffers])
    /\ last' = "reallocate_model"
    /\ UNCHANGED <<heap, data, kernel_K, dpotrf_status, file, dataset>>
    /\ IoFrame

\* A model whose dimensions were set from a data set, before its arrays
\* are allocated.
DimsInit ==
    /\ \E n \in 0..MaxN, m \in 1..MaxM, K \in 2..MaxK :
          model = [n |-> n, m |-> m, K |-> K] @@ msvmmaj_init_model
    /\ buffers = InitBuffers
    /\ heap = <<>>
    /\ data = Empty
    /\ kernel_K = None
    /\ dpotrf_status = None
    /\ exit_status = None
    /\ pre = None
    /\ last = "none"
    /\ file = None
    /\ dataset = Empty

\* ------------------------------------------------------------ data files
\* A data file: the header n m, then rows of m features, each followed by a
\* label when the file is labelled.  The file holds the first rows of its n
\* rows and ends there; feature j of row i is Feature(i, j).
Feature(i, j) == (i + j) % 2
FileLabels == (-1)..2

FileSet ==
    {[n |-> n, m |-> m, rows |-> rows, labelled |-> lb, lab |-> lab] :
        n \in 1..MaxN, m \in 1..MaxM, rows \in 0..MaxN, lb \in BOOLEAN,
        lab \in UNION {[0..(r - 1) -> FileLabels] : r \in 0..MaxN}} 

WellFormedFile(f) ==
    /\ f.rows <= f.n
    /\ DOMAIN f.lab = IF f.labelled THEN 0..(f.rows - 1) ELSE {}

\* long min_y = 1000
MIN_Y_INIT == 1000

maximum(a, b) == IF a > b THEN a ELSE b
minimum(a, b) == IF a < b THEN a ELSE b

\* The value fscanf leaves in `value` for row i: past the end of the file
\* the call fails and the last value read stays.
FileLabel(f, i) == IF i < f.rows THEN f.lab[i] ELSE f.lab[f.rows - 1]
FileValue(f, i, j) ==
    IF i < f.rows THEN Feature(i, j)
    ELSE IF f.labelled THEN f.lab[f.rows - 1]
    ELSE Feature(f.rows - 1, f.m)

\* nr after the whole file: every successful fscanf counts 1, every fscanf
\* at the end of the file EOF = -1; the label of the first row is taken
\* with sscanf and is not counted.
FileNr(f) ==
    LET per == IF f.labelled THEN f.m + 1 ELSE f.m
    IN  Len(<<f.n, f.m>>) + f.rows * per - (IF f.labelled THEN 1 ELSE 0)
            - (f.n - f.rows) * per

\* K and min_y after the loop over rows i..n-1 (lines 64-74).
RECURSIVE LabelScan(_, _, _, _)
LabelScan(f, i, K, min_y) ==
    IF i >= f.n THEN [K |-> K, min_y |-> min_y]
    ELSE LabelScan(f, i + 1, maximum(K, FileLabel(f, i)),
                   minimum(min_y, FileLabel(f, i)))

\* for (i=1; i<n; i++): the first row is not part of the scan.
ScanStart == 1

\* msvmmaj_read_data(dataset, data_file): f is None when the file cannot be
\* opened; crash tells whether free() of a never assigned dataset->y ends
\* the process.
msvmmaj_read_data(d, f, crash) ==
    IF f = None THEN [exit |-> Some(0), dataset |-> d]
    ELSE
    LET fl == f[1]
        n == fl.n
        m == fl.m
        \* Z after the first row: "set" marks a cell read from the file,
        \* "wild" a cell of the new array that was never assigned
        Z0 == [idx \in 0..(n * (m + 1) - 1) |->
                  IF idx % (m + 1) # 0 /\ idx \div (m + 1) = 0 /\ fl.rows >= 1
                  THEN "set" ELSE "wild"]
        \* Z after the loop over the rows, and after the column of ones
        Zrows == [idx \in 0..(n * (m + 1) - 1) |->
                  IF idx % (m + 1) = 0 THEN "wild"
                  ELSE "set"]
        Zval == [idx \in 0..(n * (m + 1) - 1) |->
                  IF idx % (m + 1) = 0 THEN 1
                  ELSE FileValue(fl, idx \div (m + 1), idx % (m + 1))]
        scan == IF fl.labelled THEN LabelScan(fl, ScanStart, 0, MIN_Y_INIT)
                ELSE [K |-> 0, min_y |-> MIN_Y_INIT]
        shift == IF scan.min_y = 0 THEN 1 ELSE 0
        y == IF fl.labelled
             THEN [st |-> "alloc", val |-> [i \in 0..(n - 1) |-> FileLabel(fl, i) + shift]]
             ELSE [st |-> "null", val |-> Empty]
    IN  IF fl.rows = 0
        THEN \* line 49: nothing follows the header
             [exit |-> Some(1), dataset |-> [d EXCEPT !.Z = Z0]]
        ELSE IF ~fl.labelled /\ d.y.st = "wild" /\ crash
        THEN [exit |-> None, dataset |-> [d EXCEPT !.Z = Z0, !.state = "crashed"]]
        ELSE IF scan.min_y < 0
        THEN [exit |-> Some(0), dataset |-> [d EXCEPT !.Z = Zrows, !.y = y]]
        ELSE IF FileNr(fl) < n * m
        THEN [exit |-> Some(0), dataset |-> [d EXCEPT !.Z = Zrows, !.y = y]]
        ELSE [exit |-> None,
              dataset |-> [state |-> "read", n |-> n, m |-> m,
                           K |-> scan.K + shift, Z |-> Zval, y |-> y]]

\* A MajData after msvmmaj_init_data: Z, y, n, m and K were never assigned.
InitDataset(y_st) ==
    [state |-> "init", n |-> 0, m |-> 0, K |-> 0, Z |-> Empty,
     y |-> [st |-> y_st, val |-> Empty]]

\* The data set to predict is read once the model is fitted.
ReadData ==
    /\ exit_status = None
    /\ last = "reallocate_model"
    /\ dataset.state = "init"
    /\ \E f \in {None} \cup {Some(fl) : fl \in {x \in FileSet : WellFormedFile(x)}},
          crash \in BOOLEAN :
          LET r == msvmmaj_read_data(dataset, f, crash)
          IN  /\ file' = f
              /\ dataset' = r.dataset
              /\ exit_status' = r.exit
    /\ last' = "read_data"
    /\ UNCHANGED <<heap, model, data, kernel_K, dpotrf_status, pre, buffers>>
    /\ IoFrame

\* The model and the data before msvmmaj_make_kernel, the arrays of the
\* model not yet allocated, and a second data set not yet read.
FatalInit ==
    /\ KernelInit
    /\ buffers = InitBuffers
    /\ file = None
    /\ \E y_st \in {"null", "wild"} : dataset = InitDataset(y_st)

\* ------------------------------------------------------------ tasks
\* The two shared data sets every task refers to: blocks 1 and 2.
TRAIN_DATA == 1
TEST_DATA == 2
SharedData == <<Block([n |-> 2, K |-> 2]), Block([n |-> 1, K |-> 2])>>

\* struct GenTask as gensvm_init_task leaves it.
gensvm_init_task ==
    [kerneltype |-> K_LINEAR, weight_idx |-> 1, folds |-> 10, ID |-> -1,
     p |-> "1.0", kappa |-> "0.0", lambda |-> "1.0", epsilon |-> "1e-6",
     kernelparam |-> NULL, train_data |-> NULL, test_data |-> NULL,
     performance |-> "0.0"]

\* The fields gensvm_copy_task copies by value.
ScalarFields ==
    {"kerneltype", "weight_idx", "folds", "ID", "p", "kappa", "lambda",
     "epsilon", "performance"}

\* A copy that shares the kernelparam array of the original.
CopyKernelparamShared(h, kerneltype, kernelparam) ==
    [heap |-> h, ptr |-> kernelparam]

\* Lines 103-117: the heap and nt->kernelparam; h already holds nt.
CopyKernelparam(h, kerneltype, kernelparam) ==
    IF kerneltype = K_LINEAR THEN [heap |-> h, ptr |-> NULL]
    ELSE IF kerneltype = K_RBF
    THEN [heap |-> HeapAlloc(h, [i \in 0..0 |-> h[kernelparam].val[i]]),
          ptr |-> NewPtr(h)]
    ELSE IF kerneltype = K_POLY
    THEN [heap |-> HeapAlloc(h, [i \in 0..2 |-> h[kernelparam].val[i]]),
          ptr |-> NewPtr(h)]
    ELSE IF kerneltype = K_SIGMOID
    THEN [heap |-> HeapAlloc(h, [i \in 0..1 |-> h[kernelparam].val[i]]),
          ptr |-> NewPtr(h)]
    ELSE [heap |-> h, ptr |-> NULL]

\* gensvm_copy_task(t): the heap afterwards; nt is the block appended first.
gensvm_copy_task(h, t) ==
    LET src == h[t].val
        h1 == HeapAlloc(h, gensvm_init_task)
        nt == NewPtr(h)
        kp == CopyKernelparam(h1, src.kerneltype, src.kernelparam)
    IN  [kp.heap EXCEPT ![nt].val =
            [@ EXCEPT !.weight_idx = src.weight_idx,
                      !.folds = src.folds,
                      !.ID = src.ID,
                      !.p = src.p,
                      !.kappa = src.kappa,
                      !.lambda = src.lambda,
                      !.epsilon = src.epsilon,
                      !.train_data = src.train_data,
                      !.test_data = src.test_data,
                      !.performance = src.performance,
                      !.kerneltype = src.kerneltype,
                      !.kernelparam = kp.ptr]]

\* A free_task that releases the training data as well.
FreedByTaskWithData(h, t) == {h[t].val.kernelparam, h[t].val.train_data, t} \ {NULL}

\* The pointers gensvm_free_task(t) hands to free (free(NULL) does nothing).
FreedByTask(h, t) == {h[t].val.kernelparam, t} \ {NULL}

gensvm_free_task(h, t) ==
    [q \in 1..Len(h) |->
        IF q \in FreedByTask(h, t) THEN [h[q] EXCEPT !.frees = @ + 1] ELSE h[q]]

\* The contents of a task's kernelparam array, Empty for NULL.
ParamOf(h, t) ==
    IF h[t].val.kernelparam = NULL THEN Empty ELSE h[h[t].val.kernelparam].val

Live(t) == heap[t].frees = 0

\* t = gensvm_init_task()
InitTask ==
    /\ Len(tasks) < MaxTasks
    /\ heap' = HeapAlloc(heap, gensvm_init_task)
    /\ tasks' = Append(tasks, NewPtr(heap))
    /\ free_log' = None
    /\ UNCHANGED <<configured, touched, copy_log>>
    /\ TaskFrame

\* The values the grid gives a task besides its kernel.
GridValues ==
    {[weight_idx |-> 2, folds |-> 5, ID |-> 7, p |-> "2.0", kappa |-> "0.5",
      lambda |-> "0.25", epsilon |-> "1e-8", performance |-> "87.5"]}

\* The kernel parameters the grid gives a task of each kind.
GridParam(kerneltype) ==
    IF kerneltype = K_RBF THEN ArrayOf(<<1>>)
    ELSE IF kerneltype = K_POLY THEN ArrayOf(<<1, 0, 2>>)
    ELSE IF kerneltype = K_SIGMOID THEN ArrayOf(<<1, 2>>)
    ELSE Empty

\* The heap after the grid has set up task t for kind kt: its fields, the
\* shared data sets and a kernelparam array of the size of its kind.
GridConfigure(h, t, kt, g) ==
    LET kp == GridParam(kt)
        h1 == IF kp = Empty THEN h ELSE HeapAlloc(h, kp)
    IN  [h1 EXCEPT ![t].val =
            [@ EXCEPT !.kerneltype = kt,
                      !.kernelparam = IF kp = Empty THEN NULL ELSE NewPtr(h),
                      !.weight_idx = g.weight_idx,
                      !.folds = g.folds,
                      !.ID = g.ID,
                      !.p = g.p,
                      !.kappa = g.kappa,
                      !.lambda = g.lambda,
                      !.epsilon = g.epsilon,
                      !.performance = g.performance,
                      !.train_data = TRAIN_DATA,
                      !.test_data = TEST_DATA]]

\* The grid sets up the task it has just created.
ConfigureTask ==
    \E kt \in KernelTypes, g \in GridValues :
        LET t == tasks[Len(tasks)]
        IN  /\ tasks # <<>>
            /\ Live(t)
            /\ t \notin configured
            /\ heap' = GridConfigure(heap, t, kt, g)
            /\ configured' = configured \cup {t}
            /\ free_log' = None
            /\ UNCHANGED <<tasks, touched, copy_log>>
            /\ TaskFrame

\* nt = gensvm_copy_task(t)
CopyTask ==
    \E i \in 1..Len(tasks) :
        LET t == tasks[i]
            nt == NewPtr(heap)
            h == gensvm_copy_task(heap, t)
        IN  /\ Len(tasks) < MaxTasks
            /\ Live(t)
            /\ heap' = h
            /\ tasks' = Append(tasks, nt)
            /\ configured' = configured \cup {nt}
            /\ copy_log' = copy_log \cup
                   {[src |-> t, dst |-> nt,
                     src_before |-> heap[t], src_after |-> h[t],
                     src_param_before |-> ParamOf(heap, t),
                     src_param |-> ParamOf(h, t),
                     dst_param |-> ParamOf(h, nt)]}
            /\ free_log' = None
            /\ UNCHANGED touched
            /\ TaskFrame

\* gensvm_free_task(t), for a task that has not been freed.
FreeTask ==
    \E i \in 1..Len(tasks) :
        LET t == tasks[i]
        IN  /\ Live(t)
            /\ heap' = gensvm_free_task(heap, t)
            /\ touched' = touched \cup {t}
            /\ free_log' = Some([task |-> t, before |-> heap])
            /\ UNCHANGED <<tasks, configured, copy_log>>
            /\ TaskFrame

\* The owner of a task changes the first of its kernel parameters.
WriteParam ==
    \E i \in 1..Len(tasks) :
        LET t == tasks[i]
            kp == heap[t].val.kernelparam
        IN  /\ Live(t)
            /\ kp # NULL
            /\ heap[kp].val[0] # 9
            /\ heap' = [heap EXCEPT ![kp].val[0] = 9]
            /\ touched' = touched \cup {t}
            /\ free_log' = None
            /\ UNCHANGED <<tasks, configured, copy_log>>
            /\ TaskFrame

TaskInit ==
    /\ heap = SharedData
    /\ tasks = <<>>
    /\ configured = {}
    /\ touched = {}
    /\ copy_log = {}
    /\ free_log = None

TaskIdle ==
    /\ tasks = <<>>
    /\ configured = {}
    /\ touched = {}
    /\ copy_log = {}
    /\ free_log = None

\* ------------------------------------------------------------ model owner
\* A model that takes the task's kernelparam array itself.
ModelKernelparamShared(h, kerneltype, taskparam, modelparam) ==
    [heap |-> h, ptr |-> taskparam]

\* gensvm_task.c lines 142-157: the heap and model->kernelparam; for a kind
\* that is none of the four, model->kernelparam keeps its value.
ModelKernelparam(h, kerneltype, taskparam, modelparam) ==
    IF kerneltype = K_LINEAR THEN [heap |-> h, ptr |-> NULL]
    ELSE IF kerneltype \in {K_RBF, K_POLY, K_SIGMOID}
    THEN [heap |-> HeapAlloc(h, [i \in 0..(ParamCount(kerneltype) - 1) |->
                                    h[taskparam].val[i]]),
          ptr |-> NewPtr(h)]
    ELSE [heap |-> h, ptr |-> modelparam]

\* gensvm_task_to_model(task, model)
gensvm_task_to_model(h, t, mdl) ==
    LET task == h[t].val
        kp == ModelKernelparam(h, task.kerneltype, task.kernelparam, mdl.kernelparam)
    IN  [heap |-> kp.heap,
         model |-> [mdl EXCEPT !.weight_idx = task.weight_idx,
                               !.epsilon = task.epsilon,
                               !.p = task.p,
                               !.kappa = task.kappa,
                               !.lambda = task.lambda,
                               !.kerneltype = task.kerneltype,
                               !.kernelparam = kp.ptr]]

\* Largest number of gensvm_task_to_model calls on the model.
MaxToModel == 2

TaskToModel ==
    \E i \in 1..Len(tasks) :
        LET t == tasks[i]
            r == gensvm_task_to_model(heap, t, model)
        IN  /\ exit_status = None
            /\ struct_frees.model = 0
            /\ t \in configured
            /\ Cardinality(model_log) < MaxToModel
            /\ UNCHANGED <<data, kernel_K, dpotrf_status, exit_status, pre, last,
                           struct_frees, taskVars, ioVars>>
            /\ heap' = r.heap
            /\ model' = r.model
            /\ model_log' = model_log \cup
                   {[task |-> t, heap_before |-> heap, model_before |-> model,
                     buffers_before |-> buffers, buffers |-> buffers',
                     heap |-> r.heap, model |-> r.model]}
            /\ OwnFrame

\* The array fields after free() was called on each of them.
FreeArrays(b) ==
    [name \in DOMAIN b |->
        IF b[name].st = "alloc" THEN [b[name] EXCEPT !.st = "freed"]
        ELSE IF b[name].st = "null" THEN b[name]
        ELSE [b[name] EXCEPT !.st = "freed_" \o b[name].st]]

\* msvmmaj_free_model(model): the ten arrays, then the struct.
FreeModel ==
    /\ exit_status = None
    /\ struct_frees.model = 0
    /\ buffers' = FreeArrays(buffers)
    /\ struct_frees' = [struct_frees EXCEPT !.model = @ + 1]
    /\ last' = "free_model"
    /\ UNCHANGED <<heap, model, data, kernel_K, dpotrf_status, exit_status, pre,
                   file, dataset, model_log, taskVars>>
    /\ OwnFrame

\* msvmmaj_free_data(data) on the data the model was fitted to.
FreeData ==
    /\ exit_status = None
    /\ struct_frees.data = 0
    /\ struct_frees' = [struct_frees EXCEPT !.data = @ + 1]
    /\ last' = "free_data"
    /\ UNCHANGED <<heap, model, data, kernel_K, dpotrf_status, exit_status, pre,
                   model_log, taskVars, ioVars>>
    /\ OwnFrame

\* msvmmaj_free_data(dataset): free(Z), free(y), then the struct. Z was
\* assigned by msvmmaj_read_data only; the state tells what free(Z) got.
msvmmaj_free_data(d) ==
    [d EXCEPT !.state = IF d.state = "read" THEN "freed" ELSE "freed_wild",
              !.y = [@ EXCEPT !.st = IF @ = "alloc" THEN "freed"
                                     ELSE IF @ = "null" THEN "null"
                                     ELSE "freed_" \o @]]

\* msvmmaj_free_data on the second data set, read or not.
FreeDataset ==
    /\ exit_status = None
    /\ dataset.state \in {"init", "read"}
    /\ dataset' = msvmmaj_free_data(dataset)
    /\ UNCHANGED <<heap, majVars, buffers, file, taskVars, ownVars>>
    /\ OwnFrame

\* The kinds of the tasks of the grid, in the order they are made.
GridKinds == <<K_RBF, K_POLY, K_SIGMOID, K_LINEAR, K_OTHER>>

\* The heap and the task pointers once the grid has made a task of each of
\* kinds[from..].
RECURSIVE GridTasks(_, _, _, _)
GridTasks(h, ts, kinds, from) ==
    IF from > Len(kinds) THEN [heap |-> h, tasks |-> ts]
    ELSE LET g == CHOOSE g \in GridValues : TRUE
         IN  GridTasks(GridConfigure(HeapAlloc(h, gensvm_init_task), NewPtr(h),
                                     kinds[from], g),
                       Append(ts, NewPtr(h)), kinds, from + 1)

\* A model with the hyperparameters of msvmmaj_init_model, allocated for the
\* data it is to be fitted to, and the tasks of the grid.
OwnerInit ==
    /\ \E n \in 1..MaxN, m \in 1..MaxM, chol \in BOOLEAN :
       \E Z \in {z \in RawZSet(n, m) : \A idx \in DOMAIN z : z[idx] = Lit(1)} :
          /\ model = [n |-> n, m |-> m, K |-> 2, use_cholesky |-> chol]
                        @@ msvmmaj_init_model
          /\ data = [n |-> n, m |-> m, K |-> 2, Z |-> Z,
                     y |-> [i \in 0..(n - 1) |-> 1 + (i % 2)],
                     kerneltype |-> K_LINEAR, kernelparam |-> NULL,
                     use_cholesky |-> FALSE]
          /\ buffers = AllocSeq(InitBuffers, AllocOrder, 0, n, m, 2)
    /\ LET grid == GridTasks(SharedData, <<>>, GridKinds, NewPtr(<<>>))
       IN  /\ heap = grid.heap
           /\ tasks = grid.tasks
           /\ configured = {grid.tasks[i] : i \in 1..Len(grid.tasks)}
    /\ touched = {}
    /\ copy_log = {}
    /\ free_log = None
    /\ kernel_K = None
    /\ dpotrf_status = None
    /\ exit_status = None
    /\ pre = None
    /\ last = "none"
    /\ file = None
    /\ dataset = Empty
    /\ OwnIdle

\* ------------------------------------------------------------ model files
\* A double is kept as the decimal sig * 10^exp with sig not ending in 0;
\* the text printf writes for it is the decimal it prints, kept the same way.
RECURSIVE Canon(_, _)
Canon(sig, exp) ==
    IF sig = 0 THEN [sig |-> 0, exp |-> 0]
    ELSE IF sig % 10 = 0 THEN Canon(sig \div 10, exp + 1)
    ELSE [sig |-> sig, exp |-> exp]

Abs(x) == IF x < 0 THEN -x ELSE x

RECURSIVE Digits(_)
Digits(x) == IF x < 10 THEN 1 ELSE 1 + Digits(x \div 10)

\* x * 10^exp with the last k digits of x rounded away (half away from 0).
RoundDigits(x, exp, k) ==
    LET r == IF k > Digits(Abs(x)) THEN 0
             ELSE (2 * Abs(x) + Pow(10, k)) \div (2 * Pow(10, k))
    IN  Canon(IF x < 0 THEN -r ELSE r, exp + k)

\* "%15.16f" and "%+15.16f": 16 digits after the point
DECIMALS == 16
\* "%g": 6 significant digits
G_DIGITS == 6

FormatF(x) ==
    IF x.exp >= -DECIMALS THEN x ELSE RoundDigits(x.sig, x.exp, -DECIMALS - x.exp)

FormatG(x) ==
    IF Digits(Abs(x.sig)) <= G_DIGITS THEN x
    ELSE RoundDigits(x.sig, x.exp, Digits(Abs(x.sig)) - G_DIGITS)

\* "%lf" reads the decimal of the text.
ScanLf(text) == Canon(text.sig, text.exp)

\* The lines of the file msvmmaj_write_model writes (the title and the
\* date aside).
msvmmaj_write_model(mdl) ==
    [data_file |-> mdl.data_file, p |-> FormatF(mdl.p), lambda |-> FormatF(mdl.lambda),
     kappa |-> FormatF(mdl.kappa), epsilon |-> FormatG(mdl.epsilon),
     weight_idx |-> mdl.weight_idx, n |-> mdl.n, m |-> mdl.m, K |-> mdl.K,
     V |-> [idx \in 0..((mdl.m + 1) * (mdl.K - 1) - 1) |-> FormatF(mdl.V[idx])]]

\* The local array data_filename of msvmmaj_read_model, as the caller finds
\* it through model->data_file: the frame it lived in has ended, and it
\* holds the name sscanf stored only if nothing has used the stack since.
StackBuffer(text, kept) ==
    [storage |-> "automatic", live |-> FALSE,
     text |-> IF kept THEN Some(text) ELSE None]

\* msvmmaj_read_model(model, model_filename): the fields it assigns and the
\* exit status, None when it returns; kept tells whether the memory of the
\* ended frame still holds what the routine left there.
msvmmaj_read_model(f, kept) ==
    LET V == [idx \in 0..((f.m + 1) * (f.K - 1) - 1) |->
                 IF idx \in DOMAIN f.V THEN ScanLf(f.V[idx]) ELSE Canon(0, 0)]
        nr == Cardinality(DOMAIN f.V \cap DOMAIN V)
    IN  [exit |-> IF nr # (f.m + 1) * (f.K - 1) THEN Some(1) ELSE None,
         model |-> [p |-> ScanLf(f.p), lambda |-> ScanLf(f.lambda),
                    kappa |-> ScanLf(f.kappa), epsilon |-> ScanLf(f.epsilon),
                    weight_idx |-> f.weight_idx, n |-> f.n, m |-> f.m, K |-> f.K,
                    data_file |-> StackBuffer(f.data_file, kept),
                    V_st |-> "alloc", V |-> V]]

\* Values of p, lambda, kappa, epsilon and of the entries of V.
HyperSet == {Canon(1, 0), Canon(15, -1), Canon(1234567, -12), Canon(12, -17)}
EntrySet == {Canon(0, 0), Canon(-25, -2), Canon(3, -20)}

WriteModel ==
    /\ exit_status = None
    /\ file = None
    /\ \E opened \in BOOLEAN :
          IF opened
          THEN file' = Some(msvmmaj_write_model(model)) /\ UNCHANGED exit_status
          ELSE exit_status' = Some(1) /\ UNCHANGED file
    /\ last' = "write_model"
    /\ UNCHANGED <<heap, model, data, kernel_K, dpotrf_status, pre, buffers,
                   dataset, loaded, solver, taskVars, ownVars>>
    /\ UNCHANGED <<predVars, perfVars>>

ReadModel ==
    /\ exit_status = None
    /\ file # None
    /\ loaded = None
    /\ \E opened \in BOOLEAN, kept \in BOOLEAN :
          IF opened
          THEN LET r == msvmmaj_read_model(file[1], kept)
               IN  loaded' = Some(r.model) /\ exit_status' = r.exit
          ELSE exit_status' = Some(1) /\ UNCHANGED loaded
    /\ last' = "read_model"
    /\ UNCHANGED <<heap, model, data, kernel_K, dpotrf_status, pre, buffers,
                   file, dataset, solver, taskVars, ownVars>>
    /\ UNCHANGED <<predVars, perfVars>>

\* A fitted model about to be written.
PersistInit ==
    /\ \E m \in 1..MaxM, K \in 2..MaxK, w \in 1..2 :
       \E p \in HyperSet, lambda \in HyperSet, epsilon \in HyperSet :
       \E V \in [0..((m + 1) * (K - 1) - 1) -> EntrySet] :
          model = [n |-> MaxN, m |-> m, K |-> K, weight_idx |-> w, p |-> p,
                   lambda |-> lambda, kappa |-> Canon(0, 0), epsilon |-> epsilon,
                   data_file |-> "data.txt", V |-> V]
    /\ heap = <<>>
    /\ data = Empty
    /\ kernel_K = None
    /\ dpotrf_status = None
    /\ exit_status = None
    /\ pre = None
    /\ last = "none"
    /\ IoIdle
    /\ loaded = None
    /\ solver = Empty

\* ------------------------------------------------------------ optimizer
\* The iteration controller and the linear solver, after sections 4.5 and
\* 4.6 of the specification: gensvm_update.h declares gensvm_get_update,
\* dposv and dsysv, their bodies are not part of the sources.
\* solver.V and solver.Vbar name a value of V by the iteration that solved
\* for it, 0 for the seed.

\* The iteration cap.
MaxIter == 3
\* The largest relative decrease of the objective, (Lbar - L) / L, and the
\* largest epsilon, both in one unit.
MaxDecrease == 2

\* The relative decrease is below epsilon.
Converged(decrease, epsilon) == decrease < epsilon

\* A solver that falls back whatever dposv reports.
FallbackAlways(status) == TRUE
\* dsysv is called when dposv reports a failure.
Fallback(status) == status # 0

\* A counter that stays where it is.
NextIterationStuck(it) == it
NextIteration(it) == it + 1

SolverFrame ==
    UNCHANGED <<predVars, perfVars, heap, majVars, taskVars, ioVars, ownVars, loaded>>

\* INIT: the workspace is allocated and V is seeded.
OptimizeStart ==
    /\ solver.phase = "INIT"
    /\ solver' = [solver EXCEPT !.phase = "LOOP", !.step = "solve"]
    /\ SolverFrame

\* gensvm_get_update: Vbar takes V, then dposv solves ZAZ V = ZB.
SolveCholesky ==
    /\ solver.phase = "LOOP"
    /\ solver.step = "solve"
    /\ \E status \in DpotrfStatuses :
          solver' = [solver EXCEPT
              !.Vbar = solver.V,
              !.calls = <<[fn |-> "dposv", status |-> status]>>,
              !.V = IF status = 0 THEN NextIteration(solver.it) ELSE @,
              !.step = IF Fallback(status) THEN "fallback" ELSE "check"]
    /\ SolverFrame

\* The one fallback: dsysv; its failure ends the loop with an error.
SolveIndefinite ==
    /\ solver.phase = "LOOP"
    /\ solver.step = "fallback"
    /\ \E status \in DpotrfStatuses :
          solver' = [solver EXCEPT
              !.calls = Append(@, [fn |-> "dsysv", status |-> status]),
              !.V = IF status = 0 THEN NextIteration(solver.it) ELSE @,
              !.step = IF status = 0 THEN "check" ELSE "none",
              !.phase = IF status = 0 THEN @ ELSE "FAILED",
              !.error = IF status = 0 THEN @ ELSE "numerical"]
    /\ SolverFrame

\* The objective is computed and its relative decrease compared to epsilon.
CheckConvergence ==
    /\ solver.phase = "LOOP"
    /\ solver.step = "check"
    /\ \E decrease \in 0..MaxDecrease :
          LET it == NextIteration(solver.it)
              below == Converged(decrease, solver.epsilon)
          IN  solver' = [solver EXCEPT
                  !.it = it,
                  !.decrease = decrease,
                  !.step = IF below \/ it >= MaxIter THEN "none" ELSE "solve",
                  !.calls = IF below \/ it >= MaxIter THEN @ ELSE <<>>,
                  !.phase = IF below THEN "CONVERGED"
                            ELSE IF it >= MaxIter THEN "MAX_ITER" ELSE @]
    /\ SolverFrame

\* CONVERGED or MAX_ITER -> DONE: the latest V is the result.
OptimizeDone ==
    /\ solver.phase \in {"CONVERGED", "MAX_ITER"}
    /\ solver' = [solver EXCEPT
           !.phase = "DONE",
           !.result = Some([V |-> solver.V, decrease |-> solver.decrease,
                            converged |-> solver.phase = "CONVERGED"])]
    /\ SolverFrame

SolverInit ==
    /\ \E epsilon \in 1..MaxDecrease, seeded \in BOOLEAN :
          solver = [phase |-> "INIT", step |-> "none", it |-> 0, V |-> 0, Vbar |-> 0,
                    seeded |-> seeded, epsilon |-> epsilon, decrease |-> MaxDecrease, calls |-> <<>>, error |-> "none",
                    result |-> None]
    /\ loaded = None

\* ------------------------------------------------------------ specifications
\* Prediction of a data set by each of the three routines.
PredNext == PredictLinear \/ PredictLabels \/ PredictKernel
SpecPredInit == PredInit /\ PerfIdle /\ heap = <<>> /\ MajIdle /\ TaskIdle /\ IoIdle /\ OwnIdle /\ ExtIdle
SpecPred == SpecPredInit /\ [][PredNext]_vars

\* The hit-rate of a labelled data set and a vector of predictions.
PerfNext == PredictionPerf
SpecPerfInit == PerfInit /\ PredIdle /\ heap = <<>> /\ MajIdle /\ TaskIdle /\ IoIdle /\ OwnIdle /\ ExtIdle

\* Kernel preprocessing of a data set for a configured model.
KernelNext == MakeKernel
SpecKernelInit == KernelInit /\ PredIdle /\ PerfIdle /\ TaskIdle /\ IoIdle /\ OwnIdle /\ ExtIdle
SpecKernel == SpecKernelInit /\ [][KernelNext]_vars

\* Tasks being created, set up by the grid, copied, changed and freed.
TaskNext == InitTask \/ ConfigureTask \/ CopyTask \/ FreeTask \/ WriteParam
SpecTaskInit == TaskInit /\ PredIdle /\ PerfIdle /\ MajIdle /\ IoIdle /\ OwnIdle /\ ExtIdle
SpecTask == SpecTaskInit /\ [][TaskNext]_vars

\* The routines that end in exit() on a fatal condition.
FatalNext == AllocateModel \/ MakeKernel \/ ReallocateModel \/ ReadData
SpecFatalInit == FatalInit /\ PredIdle /\ PerfIdle /\ TaskIdle /\ OwnIdle /\ ExtIdle
SpecFatal == SpecFatalInit /\ [][FatalNext]_vars

\* A model is allocated and then resized over and over.
DimsNext == AllocateModel \/ ResizeModel
SpecDimsInit == DimsInit /\ PredIdle /\ PerfIdle /\ TaskIdle /\ OwnIdle /\ ExtIdle
SpecDims == SpecDimsInit /\ [][DimsNext]_vars

\* A model is written to a file and read back.
PersistNext == WriteModel \/ ReadModel
SpecPersistInit == PersistInit /\ PredIdle /\ PerfIdle /\ TaskIdle /\ OwnIdle
SpecPersist == SpecPersistInit /\ [][PersistNext]_vars

\* A model and a data set are made, used in part, and torn down.
TeardownNext ==
    AllocateModel \/ MakeKernel \/ ReallocateModel \/ ReadData \/ FreeModel
        \/ FreeDataset
SpecTeardownInit ==
    FatalInit /\ PredIdle /\ PerfIdle /\ TaskIdle /\ OwnIdle /\ ExtIdle
SpecTeardown == SpecTeardownInit /\ [][TeardownNext]_vars

\* One run of the optimizer; every step that can be taken is taken.
SolverNext ==
    OptimizeStart \/ SolveCholesky \/ SolveIndefinite \/ CheckConvergence
        \/ OptimizeDone
SpecSolverInit ==
    SolverInit /\ PredIdle /\ PerfIdle /\ heap = <<>> /\ MajIdle /\ TaskIdle
        /\ IoIdle /\ OwnIdle
SpecSolver == SpecSolverInit /\ [][SolverNext]_vars /\ WF_vars(SolverNext)

\* The owner of a model and its data: tasks of the grid are handed to the
\* model, the data is preprocessed, and both are torn down.
OwnerNext == TaskToModel \/ MakeKernel \/ FreeModel \/ FreeData
SpecOwnerInit == OwnerInit /\ PredIdle /\ PerfIdle /\ ExtIdle
SpecOwner == SpecOwnerInit /\ [][OwnerNext]_vars
SpecPerf == SpecPerfInit /\ [][PerfNext]_vars

\* ------------------------------------------------------------ claims C1-C3
\* The norms the routines compare for instance i: the Euclidean distance of
\* row i of Z*V to each vertex j.
VertexDistance(i, j) ==
    cblas_dnrm2(model_K, model_K - 1,
                DiffVector(cblas_dgemm(data_n, model_K - 1, MaxM + 1, data_Z,
                                       MaxM + 1, model_V, model_K - 1),
                           gensvm_simplex_gen(model_K), model_K, i, j))

\* The lowest 1-based label among the vertices nearest to instance i.
NearestLabel(i) ==
    CHOOSE l \in 1..model_K :
        /\ \A j \in 0..(model_K - 1) :
              ~Less(VertexDistance(i, j), VertexDistance(i, l - 1))
        /\ \A l2 \in 1..(l - 1) :
              Less(VertexDistance(i, l - 1), VertexDistance(i, l2 - 1))

\* C1: after gensvm_predict_labels or gensvm_predict_labels_linear, predy[i]
\* is, for every instance i, the 1-based index of the vertex of U nearest to
\* row i of Z*V, the lowest such index when several are equally near.
C1_NearestVertexLabel ==
    routine \in {"linear", "labels"} =>
        \A i \in 0..(data_n - 1) : predy[i] = NearestLabel(i)

\* C1, for gensvm_predict_labels alone (min_dist starts at INFINITY).
C1_NearestVertexLabel_Infinity ==
    routine = "labels" =>
        \A i \in 0..(data_n - 1) : predy[i] = NearestLabel(i)

\* C1: an instance that lies at least 1e9 from every vertex has been
\* labelled by the linear routine.
C1_FarInstanceLinear ==
    /\ routine = "linear"
    /\ \E i \in 0..(data_n - 1) :
          \A j \in 0..(model_K - 1) : ~Less(VertexDistance(i, j), BigLen(model_K, 1))

\* C2: every label written by the linear and by the kernel routine lies in
\* 1..K, whatever the distances to the vertices are.
C2_LabelsInRange ==
    routine \in {"linear", "kernel"} =>
        \A i \in 0..(data_n - 1) : predy[i] \in 1..model_K

\* C2, for the linear routine alone.
C2_LinearLabelsInRange ==
    routine = "linear" => \A i \in 0..(data_n - 1) : predy[i] \in 1..model_K

\* C2, for the kernel routine alone.
C2_KernelLabelsInRange ==
    routine = "kernel" => \A i \in 0..(data_n - 1) : predy[i] \in 1..model_K

\* The number of instances whose predicted label equals the true label.
Hits == Cardinality({i \in 0..(perf_n - 1) : perf_y[i] = perf_predy[i]})

\* C3 as stated: for n >= 1 the value returned by gensvm_prediction_perf is
\* the fraction (number of i with y[i] = predy[i]) / n.
C3_HitRateIsFraction ==
    (performance # None /\ perf_n >= 1) => RatioEq(performance[1], Hits, perf_n)

\* C3 as amended: for n >= 1 the value returned by gensvm_prediction_perf is
\* the percentage 100 * (number of i with y[i] = predy[i]) / n.
C3_HitRateIsPercentage ==
    (performance # None /\ perf_n >= 1) =>
        RatioEq(performance[1], 100 * Hits, perf_n)

\* C3: the hit-rate of a data set with a hit on instance 0 and a miss
\* elsewhere has been computed.
C3_SomeHitsSomeMisses ==
    /\ performance # None
    /\ perf_n >= 2
    /\ perf_y[0] = perf_predy[0]
    /\ Hits < perf_n

\* ------------------------------------------------------------ claims C4-C7
MadeKernel == last = "make_kernel"
PreModel == pre[1].model
PreData == pre[1].data
PreHeap == pre[1].heap

\* C4: for the linear kernel msvmmaj_make_kernel changes nothing: Data (Z,
\* m, kerneltype, kernelparam, use_cholesky), Model (m and every other
\* field) and the heap are as before the call, the process has not exited,
\* and Z still is the input matrix with its bias column of ones.
C4_LinearKernelNoOp ==
    (MadeKernel /\ PreModel.kerneltype = K_LINEAR) =>
        /\ data = PreData
        /\ model = PreModel
        /\ heap = PreHeap
        /\ exit_status = None
        /\ \A i \in 0..(data.n - 1) : data.Z[i * (data.m + 1)] = Lit(1)

\* C4: msvmmaj_make_kernel has run for a linear model with use_cholesky set
\* on a data set of two instances that carries an older kernel descriptor.
C4_LinearCallMade ==
    /\ MadeKernel
    /\ PreModel.kerneltype = K_LINEAR
    /\ PreModel.use_cholesky
    /\ PreData.n = 2
    /\ PreData.kernelparam # NULL

\* The kernel function that belongs to a kind, on feature rows i and j of Z.
OwnKernel(kerneltype, kernelparam, Z, m, i, j) ==
    LET x1 == i * (m + 1) + 1
        x2 == j * (m + 1) + 1
    IN  IF kerneltype = K_POLY
        THEN msvmmaj_compute_poly(Z, x1, x2, kernelparam, m)
        ELSE IF kerneltype = K_RBF
        THEN msvmmaj_compute_rbf(Z, x1, x2, kernelparam, m)
        ELSE msvmmaj_compute_sigmoid(Z, x1, x2, kernelparam, m)

GramIsOwnKernel ==
    LET n == PreModel.n
        g == kernel_K[1].gram
        kp == PreHeap[PreModel.kernelparam].val
    IN  \A i, j \in 0..(n - 1) :
            /\ g[i * n + j] = OwnKernel(PreModel.kerneltype, kp, PreData.Z,
                                        PreData.m, i, j)
            /\ g[i * n + j] = g[j * n + i]

C5_GramUsesOwnKernel_PolyRbf ==
    (MadeKernel /\ kernel_K # None /\ PreModel.kerneltype \in {K_POLY, K_RBF})
        => GramIsOwnKernel

\* C5, symmetry alone, for all three kinds.
C5_GramSymmetric ==
    (MadeKernel /\ kernel_K # None) =>
        \A i, j \in 0..(PreModel.n - 1) :
            kernel_K[1].gram[i * PreModel.n + j] = kernel_K[1].gram[j * PreModel.n + i]

\* C6: after msvmmaj_make_kernel completes for a non-linear kernel, Z is a
\* data.n x (data.m+1) matrix whose column 0 is all ones and whose column
\* j+1 is column j of the Gram (or factorized) matrix, and
\* data.m = model.m = the number of non-bias columns of Z.
C6_KernelZLayout ==
    (MadeKernel /\ exit_status = None /\ PreModel.kerneltype # K_LINEAR) =>
        /\ DOMAIN data.Z = 0..(data.n * (data.m + 1) - 1)
        /\ \A i \in 0..(data.n - 1) :
              /\ data.Z[i * (data.m + 1)] = Lit(1)
              /\ \A j \in 0..(data.m - 1) :
                    data.Z[i * (data.m + 1) + j + 1]
                        = kernel_K[1].final[i * PreModel.n + j]
        /\ data.m = model.m
        /\ data.m = PreModel.n

\* C6: msvmmaj_make_kernel has completed for an RBF model with a Cholesky
\* factorization on two instances.
C6_FactorizedKernelMade ==
    /\ MadeKernel
    /\ exit_status = None
    /\ PreModel.kerneltype = K_RBF
    /\ PreModel.use_cholesky
    /\ data.n = 2

KernelFailureMet ==
    \/ PreModel.kerneltype \notin {K_LINEAR, K_POLY, K_RBF, K_SIGMOID}
    \/ dpotrf_status # None /\ dpotrf_status[1] # 0

\* C7: whenever msvmmaj_make_kernel meets an unknown kernel kind or a failed
\* Cholesky factorization, for every n >= 0, it ends with a failure status
\* and Data (Z, m, kerneltype, kernelparam) and Model (m) hold the values
\* they had before the call.
C7_KernelFailureFatalAndClean ==
    (MadeKernel /\ KernelFailureMet) =>
        /\ exit_status # None
        /\ exit_status[1] # 0
        /\ data = PreData
        /\ model = PreModel

\* C7, the part that holds: when the process exits in msvmmaj_make_kernel,
\* Data, Model and the heap are as before the call.
C7_ExitLeavesInputs ==
    (MadeKernel /\ exit_status # None) =>
        data = PreData /\ model = PreModel /\ heap = PreHeap

\* C7, for an unknown kind and n >= 1 alone.
C7_UnknownKindExits ==
    (MadeKernel /\ PreModel.n >= 1
     /\ PreModel.kerneltype \notin {K_LINEAR, K_POLY, K_RBF, K_SIGMOID}) =>
        exit_status = Some(1) /\ data = PreData /\ model = PreModel

\* ------------------------------------------------------------ claims C9-C10
\* What gensvm_copy_task must have produced for one logged call.
CopyIsDeep(c) ==
    LET src == c.src_after.val
        dst == heap[c.dst].val
        cnt == ParamCount(src.kerneltype)
    IN  /\ \A f \in ScalarFields : dst[f] = src[f]
        /\ dst.train_data = src.train_data
        /\ dst.test_data = src.test_data
        /\ IF cnt = 0
           THEN dst.kernelparam = NULL
           ELSE /\ dst.kernelparam # NULL
                /\ dst.kernelparam # src.kernelparam
                /\ DOMAIN c.dst_param = 0..(cnt - 1)
                /\ c.dst_param = c.src_param
        /\ c.src_after = c.src_before
        /\ c.src_param = c.src_param_before

\* Task a of a logged copy is as the copy left it while nobody wrote or
\* freed through a, whatever happened to the other task.
Unaffected(a, param_at_copy) ==
    (a \notin touched) =>
        /\ Live(a)
        /\ ParamOf(heap, a) = param_at_copy
        /\ heap[a].val.kernelparam # NULL => heap[heap[a].val.kernelparam].frees = 0

\* C9: gensvm_copy_task returns a task whose scalar fields equal the
\* original's, whose kernelparam is a separate array with the same 0, 1, 3
\* or 2 entries (NULL for linear), and whose train_data and test_data are
\* the original's references; the original is unchanged, and writing or
\* freeing the kernelparam of one of the two does not affect the other.
C9_CopyTaskIsDeep ==
    \A c \in copy_log :
        /\ CopyIsDeep(c)
        /\ Unaffected(c.src, c.src_param)
        /\ Unaffected(c.dst, c.dst_param)

\* A copy of a polynomial task outlives a write to and the free of its
\* original.
C9_CopyOutlivesOriginal ==
    \E c \in copy_log :
        /\ heap[c.dst].val.kerneltype = K_POLY
        /\ ~Live(c.src)
        /\ c.src_param[0] # 9
        /\ heap[c.src_after.val.kernelparam].val[0] = 9
        /\ Live(c.dst)

\* C10: when each task is freed at most once, gensvm_free_task releases
\* exactly the task's own kernelparam array and the task structure, for a
\* task fresh from gensvm_init_task (kernelparam NULL) too; no block is
\* freed twice, and the shared data sets are neither freed nor changed.
C10_FreeTaskReleasesOwn ==
    /\ \A q \in 1..Len(heap) : heap[q].frees <= 1
    /\ \A t \in 1..Len(tasks) :
           LET kp == heap[tasks[t]].val.kernelparam
           IN  kp # NULL => heap[kp].frees = heap[tasks[t]].frees
    /\ SubSeq(heap, 1, Len(SharedData)) = SharedData
    /\ free_log # None =>
           LET t == free_log[1].task
               before == free_log[1].before
           IN  /\ Len(heap) = Len(before)
               /\ \A q \in 1..Len(heap) :
                      heap[q] = IF q \in {t, before[t].val.kernelparam}
                                THEN [before[q] EXCEPT !.frees = 1]
                                ELSE before[q]

\* An original with a kernel and its copy have both been freed, and so has
\* a task fresh from gensvm_init_task.
C10_OriginalCopyAndFreshFreed ==
    /\ \E c \in copy_log :
           /\ c.src_param # Empty
           /\ ~Live(c.src)
           /\ ~Live(c.dst)
    /\ \E i \in 1..Len(tasks) :
           /\ tasks[i] \notin configured
           /\ ~Live(tasks[i])

\* ------------------------------------------------------------ claim C8
\* C8: no core routine terminates the process: an allocation failure in
\* msvmmaj_allocate_model or msvmmaj_reallocate_model, an unknown kernel
\* kind or a failed factorization in msvmmaj_make_kernel and a malformed
\* data file all come back to the caller, so the process never exits.
C8_NoRoutineTerminates == exit_status = None

\* ------------------------------------------------------------ claim C11
\* C11: after gensvm_task_to_model the model's weight_idx, epsilon, p,
\* kappa, lambda and kerneltype equal the task's, model.kernelparam is an
\* array of its own with the task's entries (NULL for linear), the task is
\* unchanged, and the model's n, m, K and solver matrices are unchanged.
C11_TaskToModelCopies ==
    \A c \in model_log :
        LET task == c.heap[c.task].val
            cnt == ParamCount(task.kerneltype)
        IN  task.kerneltype \in {K_LINEAR, K_RBF, K_POLY, K_SIGMOID} =>
            /\ \A f \in {"weight_idx", "epsilon", "p", "kappa", "lambda", "kerneltype"} :
                   c.model[f] = task[f]
            /\ IF cnt = 0
               THEN c.model.kernelparam = NULL
               ELSE /\ c.model.kernelparam # NULL
                    /\ c.model.kernelparam # task.kernelparam
                    /\ c.heap[c.model.kernelparam].val = c.heap[task.kernelparam].val
                    /\ DOMAIN c.heap[c.model.kernelparam].val = 0..(cnt - 1)
            /\ SubSeq(c.heap, 1, Len(c.heap_before)) = c.heap_before
            /\ \A f \in {"n", "m", "K", "use_cholesky"} : c.model[f] = c.model_before[f]
            /\ c.buffers = c.buffers_before

\* A polynomial task was handed to a model that held RBF parameters.
C11_PolyAfterRbf ==
    \E c \in model_log :
        /\ c.heap[c.task].val.kerneltype = K_POLY
        /\ c.model_before.kerneltype = K_RBF
        /\ c.model_before.kernelparam # NULL

\* ------------------------------------------------------------ claim C12
Allocated == \A name \in DOMAIN buffers : buffers[name].st = "alloc"

\* C12: after msvmmaj_allocate_model and any msvmmaj_reallocate_model(n, m)
\* calls, W has m(K-1) cells, t K-1, V and Vbar (m+1)(K-1), U K(K-1),
\* UU nK(K-1), Q, H and R nK and rho n, for the model's current n, m, K;
\* model.n and model.m are the n and m last asked for; and a call with the
\* n and m the model has changes nothing.
C12_DimensionsConsistent ==
    (exit_status = None /\ Allocated) =>
        LET n == model.n
            m == model.m
            K == model.K
        IN  /\ buffers.W.len = m * (K - 1)
            /\ buffers.t.len = K - 1
            /\ buffers.V.len = (m + 1) * (K - 1)
            /\ buffers.Vbar.len = (m + 1) * (K - 1)
            /\ buffers.U.len = K * (K - 1)
            /\ buffers.UU.len = n * K * (K - 1)
            /\ buffers.Q.len = n * K
            /\ buffers.H.len = n * K
            /\ buffers.R.len = n * K
            /\ buffers.rho.len = n
            /\ pre # None =>
                  /\ n = pre[1].n
                  /\ m = pre[1].m
                  /\ K = pre[1].model.K
                  /\ (pre[1].n = pre[1].model.n /\ pre[1].m = pre[1].model.m) =>
                         (buffers = pre[1].buffers /\ model = pre[1].model)

\* One call has shrunk a model in n and grown it in m.
C12_ResizedBothWays ==
    /\ exit_status = None
    /\ Allocated
    /\ pre # None
    /\ pre[1].n < pre[1].model.n
    /\ pre[1].m > pre[1].model.m

\* ------------------------------------------------------------ claim C13
\* C13: when msvmmaj_read_data returns for a labelled file, every label
\* y[i], the first row's included, lies in 1..K for the K stored in the
\* data set (a file whose labels cannot be brought there ends in an error).
C13_LabelsInOneToK ==
    (dataset.state = "read" /\ dataset.y.st = "alloc") =>
        \A i \in 0..(dataset.n - 1) :
            /\ 1 <= dataset.y.val[i]
            /\ dataset.y.val[i] <= dataset.K

\* ------------------------------------------------------------ claim C14
\* C14: msvmmaj_read_model applied to the file msvmmaj_write_model wrote
\* yields the same n, m, K, weight_idx, p, lambda, kappa and epsilon and
\* the same value for every entry of V.
C14_ModelRoundTrip ==
    (loaded # None /\ exit_status = None) =>
        /\ \A f \in {"n", "m", "K", "weight_idx", "p", "lambda", "kappa", "epsilon"} :
               loaded[1][f] = model[f]
        /\ DOMAIN loaded[1].V = 0..((model.m + 1) * (model.K - 1) - 1)
        /\ \A idx \in DOMAIN loaded[1].V : loaded[1].V[idx] = model.V[idx]

\* ------------------------------------------------------------ claim C15
\* C15: when msvmmaj_make_kernel returns for an RBF, polynomial or sigmoid
\* model, data.kerneltype is the model's, data.kernelparam is a newly
\* allocated array of 1, 3 or 2 entries holding the model's parameters,
\* data.use_cholesky is the model's, and the model's kerneltype,
\* kernelparam and use_cholesky are as before the call.
C15_DataKeepsDescriptor ==
    (MadeKernel /\ exit_status = None
        /\ PreModel.kerneltype \in {K_RBF, K_POLY, K_SIGMOID}) =>
        LET cnt == IF model.kerneltype = K_RBF THEN 1
                   ELSE IF model.kerneltype = K_POLY THEN 3 ELSE 2
        IN  /\ data.kerneltype = model.kerneltype
            /\ data.kernelparam > Len(PreHeap)
            /\ data.kernelparam # model.kernelparam
            /\ heap[data.kernelparam].frees = 0
            /\ DOMAIN heap[data.kernelparam].val = 0..(cnt - 1)
            /\ heap[data.kernelparam].val = PreHeap[PreModel.kernelparam].val
            /\ data.use_cholesky = model.use_cholesky
            /\ model.kerneltype = PreModel.kerneltype
            /\ model.kernelparam = PreModel.kernelparam
            /\ model.use_cholesky = PreModel.use_cholesky
            /\ heap[model.kernelparam] = PreHeap[PreModel.kernelparam]

\* A polynomial kernel was made on data that carried an RBF descriptor.
C15_PolyOverOldDescriptor ==
    /\ MadeKernel
    /\ exit_status = None
    /\ PreModel.kerneltype = K_POLY
    /\ PreData.kerneltype = K_RBF
    /\ PreData.kernelparam # NULL
    /\ PreData.use_cholesky # PreModel.use_cholesky

\* ------------------------------------------------------------ claims C16-C17
\* C16: in each outer iteration dposv is attempted first; dsysv is
\* attempted exactly once and only if dposv reports failure; a fatal
\* numerical error is raised only when both fail, never when one succeeds.
C16_FallbackProtocol ==
    LET calls == solver.calls
    IN  /\ Len(calls) <= 2
        /\ calls # <<>> => calls[1].fn = "dposv"
        /\ Len(calls) = 2 => (calls[2].fn = "dsysv" /\ calls[1].status # 0)
        /\ (solver.step = "check" /\ calls[1].status # 0) => Len(calls) = 2
        /\ (solver.error # "none") <=>
               (Len(calls) = 2 /\ calls[1].status # 0 /\ calls[2].status # 0)
        /\ (solver.error # "none") <=> (solver.phase = "FAILED")

\* dsysv has solved the system that dposv could not, in a later iteration.
C16_FallbackSucceeded ==
    /\ solver.it > 0
    /\ solver.step = "check"
    /\ Len(solver.calls) = 2
    /\ solver.calls[2].status = 0

Terminal == solver.phase \in {"DONE", "FAILED"}

\* C17: every run ends: in DONE, through CONVERGED or MAX_ITER, with the
\* latest V as its result and with the two told apart, or, when the linear
\* solver fails, aborted with a numerical-error signal and no V returned.
C17_ControllerTerminates ==
    /\ <>Terminal
    /\ [](solver.phase = "DONE" =>
            /\ solver.result # None
            /\ solver.result[1].V = solver.V
            /\ solver.V = solver.it
            /\ solver.result[1].decrease = solver.decrease
            /\ solver.result[1].converged \/ solver.it = MaxIter
            /\ solver.result[1].converged <=>
                   Converged(solver.decrease, solver.epsilon)
            /\ solver.error = "none")
    /\ [](solver.phase = "MAX_ITER" => solver.it = MaxIter)
    /\ [](solver.phase = "FAILED" =>
            /\ solver.error = "numerical"
            /\ solver.result = None)
    /\ [](solver.phase # "DONE" => solver.result = None)

\* The run reached the iteration cap without converging and ended in DONE.
C17_DoneAtCap ==
    /\ solver.phase = "DONE"
    /\ ~solver.result[1].converged
    /\ solver.it = MaxIter

\* ------------------------------------------------------------ claim C18
\* C18: gensvm_predict_labels_kernel only reads and writes inside its
\* buffers: S is never accessed at index K-1 or beyond, the norm
\* computation included, and ZV, KPS, U and J are accessed within their
\* lengths.
C18_KernelRoutineInBounds ==
    routine = "kernel" =>
        \A b \in DOMAIN accessed :
            accessed[b].idx \subseteq 0..(accessed[b].len - 1)

\* ------------------------------------------------------------ claim C19
\* C19: whatever was done between msvmmaj_init_model / msvmmaj_init_data
\* and the teardown, every pointer that msvmmaj_free_model,
\* msvmmaj_free_data and the y != NULL test of msvmmaj_read_data touch is
\* NULL or an allocated buffer, never a value that was not assigned.
C19_TeardownFreesAllocated ==
    /\ \A name \in DOMAIN buffers : buffers[name].st # "freed_wild"
    /\ dataset.state \notin {"crashed", "freed_wild"}
    /\ dataset.y.st # "freed_wild"

\* ------------------------------------------------------------ claim C20
\* The blocks allocated since the grid of tasks was made: the kernelparam
\* arrays gensvm_task_to_model made for the model and msvmmaj_make_kernel
\* made for the data.
OwnedKernelparams ==
    (Len(GridTasks(SharedData, <<>>, GridKinds, NewPtr(<<>>)).heap) + 1)..Len(heap)

\* C20: once gensvm_task_to_model and msvmmaj_make_kernel calls on one model
\* and one data were followed by msvmmaj_free_model and msvmmaj_free_data,
\* every kernelparam array allocated for the model or the data has been
\* freed exactly once.
C20_NoKernelparamOrphaned ==
    (struct_frees.model = 1 /\ struct_frees.data = 1) =>
        \A ptr \in OwnedKernelparams : heap[ptr].frees = 1

\* ------------------------------------------------------------ claim C21
\* C21: after msvmmaj_read_model returns, the pointers it set refer to
\* storage that is valid for the caller: model.V is an allocated array of
\* (m+1) x (K-1) doubles, and model.data_file a live buffer that holds the
\* data file name read from the model file.
C21_LoadedPointersValid ==
    (loaded # None /\ exit_status = None) =>
        /\ loaded[1].V_st = "alloc"
        /\ DOMAIN loaded[1].V = 0..((loaded[1].m + 1) * (loaded[1].K - 1) - 1)
        /\ loaded[1].data_file.live
        /\ loaded[1].data_file.text = Some(file[1].data_file)

====
